---- MODULE Spec2Model ----
(***************************************************************************)
(* Todo List API (src/index.ts): one SQLite table `todos`, five Fastify    *)
(* routes, one preHandler hook that parses the :id path parameter.         *)
(*                                                                         *)
(* Strings that are parsed (the raw :id) are sequences of one-character    *)
(* strings; titles are opaque strings.  A row of the table is a record     *)
(* [id, title, completed] with completed stored as the integer 0 or 1, as  *)
(* SQLite stores it; a response body carries the JSON form, where          *)
(* completed is a boolean.                                                 *)
(***************************************************************************)
EXTENDS Integers, Sequences, FiniteSets, TLC

\* ------------------------------------------------------------------ bounds
\* Number of POST /todos requests explored.
MaxCreates == 2
\* Longest raw :id string explored by the parser specification.
MaxLen == 3

\* ------------------------------------------------------------------ inputs
Titles == {"Buy milk", "Walk dog"}

Digits == {"0", "1", "2", "3", "4", "5", "6", "7", "8", "9"}
\* The alphabet raw :id strings are drawn from.
Chars == {"0", "1", "2", "4", "-", "+", "a", " "}

\* A JSON property that may be absent (undefined): {} or {value}.
Opt(S) == {{}} \cup {{x} : x \in S}

RECURSIVE StringsUpTo(_)
StringsUpTo(n) ==
  IF n = 0 THEN {<<>>}
  ELSE LET shorter == StringsUpTo(n - 1)
       IN  shorter \cup {Append(s, c) : s \in {t \in shorter : Len(t) = n - 1}, c \in Chars}

RawStrings == StringsUpTo(MaxLen)

DigitSeq == <<"0", "1", "2", "3", "4", "5", "6", "7", "8", "9">>
DigitChar(n) == DigitSeq[n + 1]
DigitValue(c) == CHOOSE k \in 0..9 : DigitSeq[k + 1] = c

\* Raw :id strings sent to the routes: the decimal forms of the ids that can
\* exist, of one id that never exists, and strings that are no plain id.
RawIds == {<<DigitChar(n)>> : n \in 1..(MaxCreates + 1)}
          \cup {<<"0">>, <<"-", "1">>, <<"a">>, <<"1", "a">>}

\* ------------------------------------------------------------------ parseInt
\* The result of a JavaScript numeric parse: NaN, or an integer value.
NaN == [nan |-> TRUE, val |-> 0]
Num(v) == [nan |-> FALSE, val |-> v]
isNaN(n) == n.nan
\* JavaScript `n <= 0`: false when n is NaN.
LeqZero(n) == ~n.nan /\ n.val <= 0

IsSpace(c) == c = " "

RECURSIVE TrimStart(_)
TrimStart(s) == IF s # <<>> /\ IsSpace(Head(s)) THEN TrimStart(Tail(s)) ELSE s

\* The longest prefix of s made of decimal digits.
RECURSIVE DigitPrefix(_)
DigitPrefix(s) ==
  IF s # <<>> /\ Head(s) \in Digits THEN <<Head(s)>> \o DigitPrefix(Tail(s)) ELSE <<>>

RECURSIVE DigitsToNumber(_, _)
DigitsToNumber(s, acc) ==
  IF s = <<>> THEN acc ELSE DigitsToNumber(Tail(s), acc * 10 + DigitValue(Head(s)))

\* parseInt(string, 10): skip leading white space, take an optional sign, then
\* the longest run of digits; NaN when that run is empty.  Whatever follows the
\* digits is ignored.  (Values stay far below 2^53 for the strings explored, so
\* the double result is the exact integer.)
parseInt(raw) ==
  LET S    == TrimStart(raw)
      neg  == S # <<>> /\ Head(S) = "-"
      R    == IF S # <<>> /\ Head(S) \in {"+", "-"} THEN Tail(S) ELSE S
      Z    == DigitPrefix(R)
      v    == DigitsToNumber(Z, 0)
  IN  IF Z = <<>> THEN NaN ELSE Num(IF neg THEN 0 - v ELSE v)

\* ------------------------------------------------------------------ bodies
NoBody == [kind |-> "none", todos |-> <<>>, error |-> "", message |-> ""]
ErrorBody(e, m) == [kind |-> "error", todos |-> <<>>, error |-> e, message |-> m]

\* Serialisation of a row through TodoSchema: `completed` is declared boolean,
\* so the stored 0/1 is written as false/true.
SerializeTodo(row) == [id |-> row.id, title |-> row.title, completed |-> row.completed # 0]

TodoBody(row) == [kind |-> "todo", todos |-> <<SerializeTodo(row)>>, error |-> "", message |-> ""]

RowIds(t) == {r.id : r \in t}
MaxOf(S) == IF S = {} THEN 0 ELSE CHOOSE m \in S : \A x \in S : x <= m

\* SELECT * FROM todos: the rows in rowid order.
RECURSIVE SelectAll(_)
SelectAll(t) ==
  IF t = {} THEN <<>>
  ELSE LET first == CHOOSE r \in t : \A q \in t : r.id <= q.id
       IN  <<first>> \o SelectAll(t \ {first})

ListBody(t) ==
  LET rows == SelectAll(t)
  IN  [kind |-> "list", todos |-> [i \in 1..Len(rows) |-> SerializeTodo(rows[i])],
       error |-> "", message |-> ""]

\* ------------------------------------------------------------------ hook
\* Variant: the guard written `id < 0`, which lets "0" through.
parseIdHook_ltZero(raw) ==
  LET id == parseInt(raw)
  IN  IF isNaN(id) \/ (~id.nan /\ id.val < 0)
      THEN [ran |-> TRUE, raw |-> raw, sent |-> TRUE, code |-> 400, error |-> "Invalid ID", id |-> 0]
      ELSE [ran |-> TRUE, raw |-> raw, sent |-> FALSE, code |-> 0, error |-> "", id |-> id.val]

\* parseIdHook: replies 400 and returns when the parse is NaN or <= 0, else
\* overwrites request.params.id with the number.
parseIdHook(raw) ==
  LET id == parseInt(raw)
  IN  IF isNaN(id) \/ LeqZero(id)
      THEN [ran |-> TRUE, raw |-> raw, sent |-> TRUE, code |-> 400, error |-> "Invalid ID", id |-> 0]
      ELSE [ran |-> TRUE, raw |-> raw, sent |-> FALSE, code |-> 0, error |-> "", id |-> id.val]

NoHook == [ran |-> FALSE, raw |-> <<>>, sent |-> FALSE, code |-> 0, error |-> "", id |-> 0]

\* ------------------------------------------------------------------ errors
\* Plugins registered on the instance.  `fastify.httpErrors` exists only when
\* @fastify/sensible decorates the instance.
RegisteredPlugins == {"@fastify/swagger", "@fastify/swagger-ui"}
httpErrors == "@fastify/sensible" \in RegisteredPlugins

Outcome(status, body, t, s, n) ==
  [status |-> status, body |-> body, table |-> t, seq |-> s, stmts |-> n]

\* `throw fastify.httpErrors.<factory>(msg)` inside a handler.  Without the
\* decorator the property access itself throws a TypeError, which the default
\* error handler answers with 500.  `schemaError` is TRUE when the route
\* declares a response schema {error: string} for that status: the error is
\* then serialised through it and only its `error` property (the status text)
\* is written.
ThrowHttpError(status, text, msg, schemaError, t, s, n) ==
  IF httpErrors
  THEN Outcome(status, ErrorBody(text, IF schemaError THEN "" ELSE msg), t, s, n)
  ELSE Outcome(500, ErrorBody("Internal Server Error", "TypeError"), t, s, n)

\* ------------------------------------------------------------------ storage
\* Variant: a plain INTEGER PRIMARY KEY (no AUTOINCREMENT), where the rowid is
\* one more than the largest rowid currently in the table.
NextRowid_noAutoincrement(t, s) == MaxOf(RowIds(t)) + 1

\* The rowid an INSERT gets.  With INTEGER PRIMARY KEY AUTOINCREMENT it is one
\* more than the largest rowid the table has ever held (sqlite_sequence), so
\* the id of a deleted row is not handed out again.
NextRowid(t, s) == MaxOf(RowIds(t) \cup {s}) + 1

\* INSERT INTO todos (title, completed) VALUES (?, 0) RETURNING *
InsertedRow(t, s, title) == [id |-> NextRowid(t, s), title |-> title, completed |-> 0]

\* SELECT ... FROM todos WHERE id = ?  (the rows found: none or one)
SelectById(t, id) == {r \in t : r.id = id}

\* Variant: `completed` always written, an absent value stored as 0.
UpdatedRow_alwaysCompleted(r, title, completed) ==
  [id        |-> r.id,
   title     |-> IF title # {} THEN CHOOSE v \in title : TRUE ELSE r.title,
   completed |-> IF completed = {TRUE} THEN 1 ELSE 0]

\* UPDATE todos SET <supplied columns> WHERE id = ? RETURNING *
\* title and completed are optional values ({} or {v}); completed is the
\* request's boolean, stored as `completed ? 1 : 0`.
UpdatedRow(r, title, completed) ==
  [id        |-> r.id,
   title     |-> IF title # {} THEN CHOOSE v \in title : TRUE ELSE r.title,
   completed |-> IF completed # {}
                 THEN (IF (CHOOSE v \in completed : TRUE) THEN 1 ELSE 0)
                 ELSE r.completed]

UpdateRows(t, id, title, completed) ==
  {IF r.id = id THEN UpdatedRow(r, title, completed) ELSE r : r \in t}

\* DELETE FROM todos WHERE id = ?
DeleteRows(t, id) == {r \in t : r.id # id}

\* ------------------------------------------------------------------ handlers
\* GET /todos
getTodosHandler(t, s) == Outcome(200, ListBody(t), t, s, 1)

\* Variant: the SELECT without its WHERE clause; .get() yields the first row.
getTodoHandler_noWhere(t, s, id) ==
  IF t = {}
  THEN ThrowHttpError(404, "Not Found", "Todo not found", TRUE, t, s, 1)
  ELSE Outcome(200, TodoBody(SelectAll(t)[1]), t, s, 1)

\* GET /todos/:id
getTodoHandler(t, s, id) ==
  LET todo == SelectById(t, id)
  IN  IF todo = {}
      THEN ThrowHttpError(404, "Not Found", "Todo not found", TRUE, t, s, 1)
      ELSE Outcome(200, TodoBody(CHOOSE r \in todo : TRUE), t, s, 1)

\* Variant: `completed` taken from the request body when it carries one.
postTodoHandler_trustsBody(t, s, body) ==
  LET row     == InsertedRow(t, s, body.title)
      newTodo == [row EXCEPT !.completed = IF body.completed = {TRUE} THEN 1 ELSE 0]
  IN  Outcome(201, TodoBody(newTodo), t \cup {newTodo}, MaxOf({s, newTodo.id}), 1)

\* POST /todos: only `title` is read from the body.
postTodoHandler(t, s, body) ==
  LET newTodo == InsertedRow(t, s, body.title)
  IN  Outcome(201, TodoBody(newTodo), t \cup {newTodo}, MaxOf({s, newTodo.id}), 1)

\* PUT /todos/:id
putTodoHandler(t, s, id, body) ==
  IF SelectById(t, id) = {}
  THEN ThrowHttpError(404, "Not Found", "Todo not found", TRUE, t, s, 1)
  ELSE IF body.title = {} /\ body.completed = {}
  THEN Outcome(200, TodoBody(CHOOSE r \in SelectById(t, id) : TRUE), t, s, 2)
  ELSE LET t2          == UpdateRows(t, id, body.title, body.completed)
           updatedTodo == SelectById(t2, id)
       IN  IF updatedTodo = {}
           THEN ThrowHttpError(500, "Internal Server Error", "Failed to update todo",
                               FALSE, t2, s, 2)
           ELSE Outcome(200, TodoBody(CHOOSE r \in updatedTodo : TRUE), t2, s, 2)

\* DELETE /todos/:id
deleteTodoHandler(t, s, id) ==
  LET changes == Cardinality(SelectById(t, id))
      t2      == DeleteRows(t, id)
  IN  IF changes = 0
      THEN ThrowHttpError(404, "Not Found", "Todo not found", TRUE, t2, s, 1)
      ELSE Outcome(204, NoBody, t2, s, 1)

\* ------------------------------------------------------------------ routing
\* A route with `preHandler: parseIdHook`: once the hook has sent the reply,
\* the handler is not called; otherwise the handler runs with the parsed id.
Dispatch(h, t, s, out) ==
  IF h.sent
  THEN [status |-> h.code, body |-> ErrorBody(h.error, ""), table |-> t, seq |-> s,
        stmts |-> 0, handlerRan |-> FALSE]
  ELSE [status |-> out.status, body |-> out.body, table |-> out.table, seq |-> out.seq,
        stmts |-> out.stmts, handlerRan |-> TRUE]

NoRequestBody == [title |-> {}, completed |-> {}]

Response(route, h, req, d) ==
  [route |-> route, req |-> req, status |-> d.status, body |-> d.body, id |-> h.id,
   handlerRan |-> d.handlerRan, stmts |-> d.stmts]

PostBodies == [title : Titles, completed : Opt(BOOLEAN)]
AsRequestBody(body) == [title |-> {body.title}, completed |-> body.completed]
PutBodies  == [title : Opt(Titles), completed : Opt(BOOLEAN)]

\* ------------------------------------------------------------------ state
VARIABLES
  table,     \* rows of `todos`: a set of [id, title, completed \in {0,1}]
  seq,       \* sqlite_sequence.seq for `todos` (AUTOINCREMENT bookkeeping)
  hook,      \* outcome of parseIdHook for the latest request
  resp,      \* the latest response and what the request executed
  assigned,  \* history: every id a POST has returned
  created,   \* history: Todos returned by POST and not since targeted by PUT/DELETE
  gone       \* history: ids whose DELETE was answered 204

vars == <<table, seq, hook, resp, assigned, created, gone>>

Init ==
  /\ table = {}
  /\ seq = 0
  /\ hook = NoHook
  /\ resp = [route |-> "none", req |-> NoRequestBody, status |-> 0, body |-> NoBody,
             id |-> 0, handlerRan |-> FALSE, stmts |-> 0]
  /\ assigned = {}
  /\ created = {}
  /\ gone = {}

\* One request, from the hook to the reply.
Serve(route, h, req, d) ==
  /\ hook' = h
  /\ resp' = Response(route, h, req, d)
  /\ table' = d.table
  /\ seq' = d.seq

\* The history no longer vouches for an id once a PUT or DELETE handler ran on it.
Forget(h, d) == IF d.handlerRan THEN {c \in created : c.id # h.id} ELSE created

GetTodos ==
  /\ Serve("GET /todos", NoHook, NoRequestBody, Dispatch(NoHook, table, seq, getTodosHandler(table, seq)))
  /\ UNCHANGED <<assigned, created, gone>>

GetTodo(raw) ==
  LET h == parseIdHook(raw)
  IN  /\ Serve("GET /todos/:id", h, NoRequestBody, Dispatch(h, table, seq, getTodoHandler(table, seq, h.id)))
      /\ UNCHANGED <<assigned, created, gone>>

PostTodo(body) ==
  LET d == Dispatch(NoHook, table, seq, postTodoHandler(table, seq, body))
      t == d.body.todos[1]
  IN  /\ Cardinality(assigned) < MaxCreates
      /\ Serve("POST /todos", NoHook, AsRequestBody(body), d)
      /\ assigned' = assigned \cup {t.id}
      /\ created' = {c \in created : c.id # t.id} \cup {t}
      /\ UNCHANGED gone

PutTodo(raw, body) ==
  LET h == parseIdHook(raw)
      d == Dispatch(h, table, seq, putTodoHandler(table, seq, h.id, body))
  IN  /\ Serve("PUT /todos/:id", h, body, d)
      /\ created' = Forget(h, d)
      /\ UNCHANGED <<assigned, gone>>

DeleteTodo(raw) ==
  LET h == parseIdHook(raw)
      d == Dispatch(h, table, seq, deleteTodoHandler(table, seq, h.id))
  IN  /\ Serve("DELETE /todos/:id", h, NoRequestBody, d)
      /\ created' = Forget(h, d)
      /\ gone' = IF d.status = 204 THEN gone \cup {h.id} ELSE gone
      /\ UNCHANGED assigned

Next ==
  \/ GetTodos
  \/ \E raw \in RawIds : GetTodo(raw)
  \/ \E body \in PostBodies : PostTodo(body)
  \/ \E raw \in RawIds, body \in PutBodies : PutTodo(raw, body)
  \/ \E raw \in RawIds : DeleteTodo(raw)

Spec == Init /\ [][Next]_vars

\* The parser alone: the hook applied to every raw string up to MaxLen.
ParseId(raw) ==
  /\ hook' = parseIdHook(raw)
  /\ UNCHANGED <<table, seq, resp, assigned, created, gone>>

NextParse == \E raw \in RawStrings : ParseId(raw)

SpecParse == Init /\ [][NextParse]_vars

\* ------------------------------------------------------------------ properties
IdRoutes == {"GET /todos/:id", "PUT /todos/:id", "DELETE /todos/:id"}
NotFoundBody == ErrorBody("Todo not found", "")
RowOf(t, id) == CHOOSE r \in t : r.id = id
OptValue(o) == CHOOSE v \in o : TRUE

\* C1: a GET /todos/{id} with a positive integer id that no persisted Todo has
\* is answered 404 {error:"Todo not found"} and leaves the table unchanged.
C1_GetMissingIs404 ==
  [][(resp'.route = "GET /todos/:id" /\ resp'.handlerRan /\ hook'.id \notin RowIds(table))
       => (resp'.status = 404 /\ resp'.body = NotFoundBody /\ table' = table)]_vars

\* C2: DELETE /todos/{id} of a persisted id is answered 204 with an empty body
\* and removes the row; the same DELETE repeated right after it is answered 404.
C2_DeleteTwice ==
  [][(resp'.route = "DELETE /todos/:id" /\ resp'.handlerRan)
       => /\ hook'.id \in RowIds(table)
               => /\ resp'.status = 204
                  /\ resp'.body = NoBody
                  /\ table' = {r \in table : r.id # hook'.id}
          /\ (resp.route = "DELETE /todos/:id" /\ resp.status = 204 /\ resp.id = hook'.id)
               => resp'.status = 404]_vars

\* A whole string that is a base-10 integer: an optional sign, then digits only.
IsBase10Integer(s) ==
  LET d == IF s # <<>> /\ Head(s) \in {"+", "-"} THEN Tail(s) ELSE s
  IN  d # <<>> /\ \A i \in 1..Len(d) : d[i] \in Digits
Base10Value(s) ==
  LET d == IF Head(s) \in {"+", "-"} THEN Tail(s) ELSE s
      v == DigitsToNumber(d, 0)
  IN  IF Head(s) = "-" THEN 0 - v ELSE v
IsPositiveBase10(s) == IsBase10Integer(s) /\ Base10Value(s) > 0

\* C3: ParseId accepts a raw id exactly when the whole string is a base-10
\* integer greater than zero, and then yields that integer; every other string
\* is rejected.
C3_ParseIdWholeString ==
  hook.ran => /\ ~hook.sent <=> IsPositiveBase10(hook.raw)
              /\ ~hook.sent => hook.id = Base10Value(hook.raw)

\* The raw id does not parse to a number greater than zero.
Rejected(raw) == LET n == parseInt(raw) IN isNaN(n) \/ LeqZero(n)

\* C4: on GET, PUT and DELETE /todos/{id} the hook runs, and a request whose id
\* it rejects is answered 400 {error:"Invalid ID"} without the handler running,
\* without any storage statement, and with the table unchanged.
C4_InvalidIdStopsRequest ==
  [][/\ resp'.route \in IdRoutes => hook'.ran
     /\ (hook'.ran /\ Rejected(hook'.raw))
          => /\ resp'.status = 400
             /\ resp'.body = ErrorBody("Invalid ID", "")
             /\ ~resp'.handlerRan
             /\ resp'.stmts = 0
             /\ table' = table
             /\ seq' = seq]_vars

C4_Witness ==
  /\ resp.route = "PUT /todos/:id" /\ hook.sent /\ Rejected(hook.raw)
  /\ resp.req.title # {} /\ table # {}

\* C5: a POST /todos is answered 201 with a Todo whose completed is false, and
\* the persisted row of that id has completed = 0, whatever the body's
\* completed property is.
C5_CreatedIsNotCompleted ==
  resp.route = "POST /todos"
    => /\ resp.status = 201
       /\ resp.body.kind = "todo"
       /\ resp.body.todos[1].completed = FALSE
       /\ resp.body.todos[1].title = OptValue(resp.req.title)
       /\ \E r \in table : r.id = resp.body.todos[1].id
       /\ \A r \in table : r.id = resp.body.todos[1].id
            => r.completed = 0 /\ r.title = OptValue(resp.req.title)

C5_Witness ==
  resp.route = "POST /todos" /\ resp.status = 201 /\ resp.req.completed = {TRUE}

\* C6: a GET /todos/{id} of an id that a POST returned, and on which no PUT or
\* DELETE has run since, is answered 200 with the Todo the POST returned,
\* whatever happened to other ids in between.
C6_GetReturnsCreated ==
  (resp.route = "GET /todos/:id" /\ resp.handlerRan)
    => \A c \in created : c.id = resp.id
         => resp.status = 200 /\ resp.body.kind = "todo" /\ resp.body.todos = <<c>>

C6_Witness ==
  /\ resp.route = "GET /todos/:id" /\ resp.status = 200
  /\ \E c \in created : c.id = resp.id /\ resp.id > 1
  /\ gone # {}

\* C7: a PUT /todos/{id} of an existing id is answered 200 with the record and
\* changes only the supplied fields of that row: the id stays, an absent title
\* or completed keeps its value, a body with neither changes nothing, and every
\* other row is unchanged.
C7_UpdateTouchesOnlySupplied ==
  [][(resp'.route = "PUT /todos/:id" /\ resp'.handlerRan /\ hook'.id \in RowIds(table))
       => LET old == RowOf(table, hook'.id)
              b   == resp'.req
              new == [id        |-> old.id,
                      title     |-> IF b.title = {} THEN old.title ELSE OptValue(b.title),
                      completed |-> IF b.completed = {} THEN old.completed
                                    ELSE IF OptValue(b.completed) THEN 1 ELSE 0]
          IN  /\ resp'.status = 200
              /\ resp'.body = TodoBody(new)
              /\ table' = (table \ {old}) \cup {new}
              /\ (b.title = {} /\ b.completed = {}) => table' = table]_vars

C7_Witness ==
  /\ resp.route = "PUT /todos/:id" /\ resp.status = 200
  /\ resp.req.title = {} /\ resp.req.completed = {FALSE}
  /\ \E r \in table : r.id = resp.id /\ r.completed = 0
  /\ \E r \in table : r.id # resp.id /\ r.completed = 1

\* C8: the persisted Todos have pairwise distinct ids; no request changes the
\* id of a row (ids leave the table only through the DELETE of that id and
\* enter it only through POST); and the id a POST assigns is greater than every
\* id assigned before, deleted ones included.
C8_IdsUniqueStableIncreasing ==
  [][/\ \A r1, r2 \in table' : r1.id = r2.id => r1 = r2
     /\ resp'.route # "POST /todos" => RowIds(table') \subseteq RowIds(table)
     /\ resp'.route # "DELETE /todos/:id" => RowIds(table) \subseteq RowIds(table')
     /\ resp'.route = "DELETE /todos/:id" => RowIds(table) \ RowIds(table') \subseteq {hook'.id}
     /\ (resp'.route = "POST /todos" /\ resp'.status = 201)
          => LET id == resp'.body.todos[1].id
             IN  /\ RowIds(table') = RowIds(table) \cup {id}
                 /\ \A a \in assigned : id > a]_vars

C8_Witness ==
  /\ resp.route = "POST /todos" /\ resp.status = 201
  /\ gone # {} /\ \A g \in gone : resp.body.todos[1].id > g

\* C9: once DELETE /todos/{id} has been answered 204, every later GET of that
\* id is answered 404 and the id is never a row of the table again.
C9_DeletedStaysGone ==
  /\ \A g \in gone : g \notin RowIds(table)
  /\ (resp.route = "GET /todos/:id" /\ resp.handlerRan /\ resp.id \in gone)
       => resp.status = 404

\* C10: a PUT /todos/{id} whose id has no row when the handler checks for it
\* is answered 404 and changes no row.  (The handler runs from its check to its
\* mutation without a suspension point, so no other request of this process
\* can delete the row in between.)
C10_PutMissingIs404 ==
  [][(resp'.route = "PUT /todos/:id" /\ resp'.handlerRan /\ hook'.id \notin RowIds(table))
       => (resp'.status = 404 /\ table' = table)]_vars

====
